---- MODULE Spec2Model ----
(***************************************************************************)
(* Model of atooms.simulation.core.Simulation: the callback registry       *)
(* (add / remove / notify) and the run() driver with its restart logic,    *)
(* main loop, checkpointing and termination by the SimulationEnd signal.   *)
(***************************************************************************)
EXTENDS Integers, Sequences, FiniteSets, TLC

(***************************************************************************)
(* Bounds of the model.                                                    *)
(***************************************************************************)
\* largest step target given to the constructor or to run(steps=N), and
\* largest step count a backend reports from its pre-run hook
MaxSteps == 2
\* largest fixed interval given to add()
MaxInterval == 2
\* largest target value given as argument to the user's targeter
MaxValue == 2
\* largest checkpoint interval given to the constructor
MaxCheckpoint == 1
\* bounds of the single-observer scenario (SpecScenario)
MaxT == 10
MaxC == 5
MaxK == 3
\* largest number of particles of the system attached to the backend
MaxParticles == 1
\* largest wall time elapsed since the start of the run
MaxElapsed == 1

(***************************************************************************)
(* The observers of the model.  An observer is a callable object; its      *)
(* __name__ is a sequence of characters.                                   *)
(***************************************************************************)
Observers == {"writer", "speedometer", "Target_RMSD", "target_steps"}

\* the observers a caller registers with add(); target_steps is registered by run()
UserObservers == {"writer", "speedometer", "Target_RMSD"}

NameOf(o) ==
    CASE o = "writer"       -> <<"w","r","i","t","e","r">>
      [] o = "speedometer"  -> <<"s","p","e","e","d","o","m","e","t","e","r">>
      [] o = "Target_RMSD"  -> <<"T","a","r","g","e","t","_","R","M","S","D">>
      [] o = "target_steps" -> <<"t","a","r","g","e","t","_","s","t","e","p","s">>

\* observers.py is not part of the sources at hand: a trajectory writer has a
\* clear() hook, plain functions and the speedometer have none
HasClear(o) == o = "writer"

IsSpeedometer(o) == o = "speedometer"

UpperChars == <<"A","B","C","D","E","F","G","H","I","J","K","L","M",
                "N","O","P","Q","R","S","T","U","V","W","X","Y","Z">>
LowerChars == <<"a","b","c","d","e","f","g","h","i","j","k","l","m",
                "n","o","p","q","r","s","t","u","v","w","x","y","z">>

\* str.lower() on one character
LowerChar(c) ==
    IF \E i \in 1..Len(UpperChars) : UpperChars[i] = c
    THEN LowerChars[CHOOSE i \in 1..Len(UpperChars) : UpperChars[i] = c]
    ELSE c

Lower(s) == [i \in 1..Len(s) |-> LowerChar(s[i])]

\* sub in s
Contains(sub, s) ==
    \E i \in 1..(Len(s) - Len(sub) + 1) : SubSeq(s, i, i + Len(sub) - 1) = sub

TargetWord == <<"t","a","r","g","e","t">>

\* the observers for which 'target' in callback.__name__.lower() holds
TargetNamed == {o \in Observers : Contains(TargetWord, Lower(NameOf(o)))}

\* 'target' in callback.__name__.lower()
NameHasTarget(o) == o \in TargetNamed

(***************************************************************************)
(* Scheduler, target functions and backend: atooms/simulation/observers.py *)
(* and dryrun.py are not part of the sources at hand.                      *)
(***************************************************************************)
\* sys.maxsize: the step of a scheduler that never fires
MaxSize == 1000000

Scheduler(interval) == [interval |-> interval]

\* Scheduler.__call__(sim): the next multiple of the interval above sim.steps
SchedulerCall(sch, st) ==
    IF sch.interval > 0 THEN ((st \div sch.interval) + 1) * sch.interval
    ELSE MaxSize

\* target_steps(sim, value) and the user's targeter raise SimulationEnd once
\* the step count has reached value; other observers raise nothing
RaisesEnd(o, st, args) ==
    /\ o \in {"target_steps", "Target_RMSD"}
    /\ Len(args) > 0
    /\ st >= args[1]

\* backend.run_pre(restart): the step counts the backend may report
BackendRunPre(rst, bsteps) ==
    IF rst THEN 0..MaxSteps ELSE {bsteps}

NoPath == "None"
OutputPaths == {NoPath, "out/trajectory.xyz"}

\* the exceptions that backend or observer code raises, other than
\* SimulationEnd: a user cancellation, an error that some callers tolerate as
\* a missing capability, and any other error
Exceptions == {"KeyboardInterrupt", "AttributeError", "IOError"}

\* self.backend.system: None (written -1), or a System whose particle list
\* has n entries
NoSystem == -1
Systems == {NoSystem} \cup (0..MaxParticles)

\* time.time() - self.start_time
Elapsed == 0..MaxElapsed

VARIABLES
    callback,            \* self._callback: the notification order
    cbk_params,          \* self._cbk_params: observer -> scheduler, args
    steps,               \* self.steps
    backend_steps,       \* self.backend.steps
    initial_steps,       \* self.initial_steps
    max_steps,           \* self.max_steps
    restart,             \* self.restart
    output_path,         \* self.output_path
    checkpoint_interval, \* interval of self._checkpoint_scheduler
    pc,                  \* position of the caller: idle, or inside run()
    outcome,             \* how the current run() left its try block
    fresh,               \* whether run() was called with restart false or at step 0
    trace,               \* events of the current run(), in order
    iter,                \* triggers computed by the latest loop iteration
    added,               \* the latest add() of each registered observer, in call order
    call,                \* the add() or remove() call that has just returned
    has_checkpoint,      \* whether self.backend has a write_checkpoint operation
    log,                 \* what the current run() has logged at its end
    escaped              \* the exception that run() has raised to its caller

vars == <<callback, cbk_params, steps, backend_steps, initial_steps, max_steps,
          restart, output_path, checkpoint_interval, pc, outcome, fresh,
          trace, iter, added, call, has_checkpoint, log, escaped>>

(***************************************************************************)
(* Sequence helpers.                                                       *)
(***************************************************************************)
Range(s) == {s[i] : i \in 1..Len(s)}

InSeq(x, s) == \E i \in 1..Len(s) : s[i] = x

\* list.remove(x): drops the first occurrence
RECURSIVE ListRemove(_, _)
ListRemove(s, x) ==
    IF s = <<>> THEN <<>>
    ELSE IF Head(s) = x THEN Tail(s)
    ELSE <<Head(s)>> \o ListRemove(Tail(s), x)

IndexOf(x, s) == CHOOSE i \in 1..Len(s) : s[i] = x

RECURSIVE MinOf(_)
MinOf(s) ==
    IF Len(s) = 1 THEN s[1]
    ELSE LET m == MinOf(Tail(s)) IN IF s[1] <= m THEN s[1] ELSE m

Event(ev, o, st, phase) == [ev |-> ev, o |-> o, step |-> st, phase |-> phase]

\* a message logged after the first n events of the run
LogEntry(msg, n) == [msg |-> msg, at |-> n]

NoIter == [all_steps |-> <<>>, order |-> <<>>, next_checkpoint |-> 0,
           next_step |-> 0]


(***************************************************************************)
(* Callback registry: add, remove, notify.                                 *)
(***************************************************************************)
\* the scheduler argument of add(): an int (as callers pass it), or a
\* Scheduler instance (run() at line 260)
IntArg(k) == [type |-> "int", interval |-> k]
SchedulerArg(k) == [type |-> "Scheduler", interval |-> k]

\* what a caller passes to add() for an observer: a writer or a speedometer
\* with an interval, the targeter with an interval and its target value
AddInputs(o) ==
    CASE o = "writer" ->
            {[interval |-> k, args |-> <<>>] : k \in {1, MaxInterval}}
      [] o = "speedometer" ->
            {[interval |-> 1, args |-> <<>>]}
      [] o = "Target_RMSD" ->
            {[interval |-> kv[1], args |-> <<kv[2]>>] :
                kv \in {x \in {1, MaxInterval} \X {1, MaxValue} : x[1] <= x[2]}}

\* lines 132-133: an integer scheduler becomes Scheduler(scheduler)
AsScheduler(x) ==
    IF x.type = "int" THEN Scheduler(x.interval) ELSE [interval |-> x.interval]

\* lines 128-129
DropIfPresent(cb, o) == IF InSeq(o, cb) THEN ListRemove(cb, o) ELSE cb

\* lines 143-147 with a targeter put at the front as well
PlaceMutFront(cb, o) == <<o>> \o cb

\* lines 143-147 with the ordinary observer put before the first targeter
PlaceMutStable(cb, o) ==
    IF ~NameHasTarget(o)
    THEN SelectSeq(cb, LAMBDA x : ~NameHasTarget(x)) \o <<o>>
         \o SelectSeq(cb, LAMBDA x : NameHasTarget(x))
    ELSE Append(cb, o)

\* lines 143-147: keep targeters last
Place(cb, o) ==
    IF ~NameHasTarget(o) THEN <<o>> \o cb ELSE Append(cb, o)

\* lines 128-129 left out: the callback is not removed before it is placed
AddCallbackMutNoRemove(cb, o) == Place(cb, o)

\* the effect of add() on self._callback
AddCallback(cb, o) == Place(DropIfPresent(cb, o), o)

\* lines 138-141: the effect of add() on self._cbk_params
AddParams(p, o, sch, args) ==
    [x \in DOMAIN p \cup {o} |->
        IF x = o THEN [scheduler |-> sch, args |-> args] ELSE p[x]]

\* lines 151-153 without the list removal of line 152
RemoveCallbackMutKeep(cb, o) == cb

\* lines 151-153: the effect of remove() on self._callback
RemoveCallback(cb, o) == IF InSeq(o, cb) THEN ListRemove(cb, o) ELSE cb

\* lines 151-153 without the pop of line 153
RemoveParamsMutKeep(cb, p, o) == p

\* lines 151-153: the effect of remove() on self._cbk_params
RemoveParams(cb, p, o) ==
    IF InSeq(o, cb) THEN [x \in DOMAIN p \ {o} |-> p[x]] ELSE p

\* the latest add() calls of the registered observers, in call order
NoteAdd(a, o, sch, args) ==
    Append(SelectSeq(a, LAMBDA x : x.o # o),
           [o |-> o, interval |-> sch.interval, args |-> args])

\* what a call returned to its caller, or raised
NoResult == [value |-> <<>>, raised |-> "none"]

NoCall == [op |-> "none", o |-> "none", old |-> <<>>, given |-> <<>>,
           steps0 |-> 0, max0 |-> 0, result |-> NoResult]

\* the call that has just been made: the operation, the observer, the
\* registration it found, the argument given to it (the steps of run(), the
\* system read by a query), and the step count and step target it found
CallOf(op, o, cb, p, given, st, ms) ==
    [op |-> op, o |-> o, old |-> IF InSeq(o, cb) THEN <<p[o]>> ELSE <<>>,
     given |-> given, steps0 |-> st, max0 |-> ms, result |-> NoResult]

\* line 166
Targeters(cb) == SelectSeq(cb, LAMBDA o : NameHasTarget(o))

\* line 170
NonTargeters(cb) == SelectSeq(cb, LAMBDA o : ~NameHasTarget(o))

\* line 174 taking every ordinary observer for a speedometer
SpeedometersMutAll(cb) == NonTargeters(cb)

\* line 174
Speedometers(cb) == SelectSeq(cb, LAMBDA o : IsSpeedometer(o))

\* notify(observers): calls each observer in the order given with its stored
\* arguments; the first SimulationEnd raised ends the batch
RECURSIVE Notify(_, _, _, _)
Notify(observers, p, st, phase) ==
    IF observers = <<>> THEN [events |-> <<>>, signal |-> "none"]
    ELSE LET o == Head(observers)
             e == Event("notify", o, st, phase)
         IN  IF RaisesEnd(o, st, p[o].args)
             THEN [events |-> <<e>>, signal |-> "SimulationEnd"]
             ELSE LET rest == Notify(Tail(observers), p, st, phase)
                  IN  [events |-> <<e>> \o rest.events, signal |-> rest.signal]

\* what the environment makes a call into backend or observer code do: nothing,
\* or raise exc at a point of run() (for a hook or a notification, at the k-th
\* callback called)
NoFault == [point |-> "none", k |-> 0, exc |-> "none"]
Fault(point, k, exc) == [point |-> point, k |-> k, exc |-> exc]

Faults(points) ==
    {Fault(pt, 0, e) : pt \in points \ {"clear", "notify"}, e \in Exceptions}
    \cup {Fault(pt, k, e) : pt \in points \cap {"clear", "notify"},
                            k \in 1..Cardinality(Observers), e \in Exceptions}

\* notify(observers) when the call of the k-th observer raises exc: the
\* observers before it are called as usual; one of them raising SimulationEnd
\* ends the batch before the k-th is called
NotifyRaising(observers, p, st, phase, k, exc) ==
    LET pre == Notify(SubSeq(observers, 1, k - 1), p, st, phase)
    IN  IF pre.signal # "none" THEN pre
        ELSE [events |-> pre.events
                          \o <<Event("notify", observers[k], st, phase),
                               Event("raise", exc, st, phase)>>,
              signal |-> exc]

\* lines 176-181 without the except clause: a missing operation and an
\* AttributeError of the operation leave write_checkpoint()
WriteCheckpointMutStrict(capable, raised, st, phase) ==
    LET r  == IF capable THEN raised ELSE "AttributeError"
        ev == IF ~capable THEN "checkpoint_none"
              ELSE IF raised = "none" THEN "checkpoint" ELSE "checkpoint_raised"
    IN  [events |-> <<Event(ev, "backend", st, phase)>>
                     \o (IF capable /\ raised # "none"
                         THEN <<Event("raise", raised, st, phase)>> ELSE <<>>),
         signal |-> r]

\* lines 176-181: write_checkpoint().  raised is what the backend's operation
\* raises when it exists; a backend without the operation gives an
\* AttributeError at the call.  An AttributeError of either origin is passed over.
WriteCheckpoint(capable, raised, st, phase) ==
    LET r  == IF capable THEN raised ELSE "AttributeError"
        ev == IF ~capable THEN "checkpoint_none"
              ELSE IF raised = "none" THEN "checkpoint" ELSE "checkpoint_raised"
    IN  [events |-> <<Event(ev, "backend", st, phase)>>
                     \o (IF capable /\ raised # "none"
                         THEN <<Event("raise", raised, st, phase)>> ELSE <<>>),
         signal |-> IF r = "AttributeError" THEN "none" ELSE r]

\* lines 193-199: wall_time_per_step(), the quotient elapsed / steps done as
\* the pair <<numerator, denominator>>
WallTimePerStep(st, ist, el) ==
    IF st - ist = 0 THEN [value |-> <<>>, raised |-> "ZeroDivisionError"]
    ELSE [value |-> <<el, st - ist>>, raised |-> "none"]

\* lines 201-207 looking at the system before the time per step is computed
WallTimePerStepParticleMutSystemFirst(st, ist, sys, el) ==
    IF sys = NoSystem THEN [value |-> <<0, 1>>, raised |-> "none"]
    ELSE LET t == WallTimePerStep(st, ist, el)
         IN  IF t.raised # "none" THEN t
             ELSE IF sys = 0 THEN [value |-> <<>>, raised |-> "ZeroDivisionError"]
             ELSE [value |-> <<t.value[1], t.value[2] * sys>>, raised |-> "none"]

\* lines 201-207: wall_time_per_step_particle().  The time per step is
\* computed first; an AttributeError of self.system.particle gives 0.0
WallTimePerStepParticle(st, ist, sys, el) ==
    LET t == WallTimePerStep(st, ist, el)
    IN  IF t.raised # "none" THEN t
        ELSE IF sys = NoSystem THEN [value |-> <<0, 1>>, raised |-> "none"]
        ELSE IF sys = 0 THEN [value |-> <<>>, raised |-> "ZeroDivisionError"]
        ELSE [value |-> <<t.value[1], t.value[2] * sys>>, raised |-> "none"]

unchangedRun == <<steps, backend_steps, initial_steps, max_steps, restart,
                  output_path, checkpoint_interval, outcome, fresh, trace, iter,
                  has_checkpoint, log, escaped>>

\* Simulation.add(callback, scheduler, *args) called between runs
Add(o, sch, args) ==
    /\ pc = "idle"
    /\ callback' = AddCallback(callback, o)
    /\ cbk_params' = AddParams(cbk_params, o, AsScheduler(sch), args)
    /\ added' = NoteAdd(added, o, sch, args)
    /\ call' = CallOf("add", o, callback, cbk_params, <<>>, steps, max_steps)
    /\ pc' = "called"
    /\ UNCHANGED unchangedRun

\* Simulation.remove(callback) called between runs
Remove(o) ==
    /\ pc = "idle"
    /\ callback' = RemoveCallback(callback, o)
    /\ cbk_params' = RemoveParams(callback, cbk_params, o)
    /\ added' = IF InSeq(o, callback) THEN SelectSeq(added, LAMBDA x : x.o # o)
                ELSE added
    /\ call' = CallOf("remove", o, callback, cbk_params, <<>>, steps, max_steps)
    /\ pc' = "called"
    /\ UNCHANGED unchangedRun

\* add() or remove() returns to its caller
CallReturn ==
    /\ pc = "called"
    /\ pc' = "idle"
    /\ call' = NoCall
    /\ UNCHANGED <<callback, cbk_params, steps, backend_steps, initial_steps,
                   max_steps, restart, output_path, checkpoint_interval, outcome,
                   fresh, trace, iter, added, has_checkpoint, log, escaped>>


(***************************************************************************)
(* run(): restart handling, pre-run, initial notification, main loop.      *)
(***************************************************************************)
\* line 253: the steps argument and the reset apply unless resuming
IsFreshRun(rst, st) == ~rst \/ st = 0

\* lines 253-255 taking the steps argument on every run
RunMaxStepsMutAlways(rst, st, ms, hasN, N) == IF hasN THEN N ELSE ms

\* lines 253-255: self.max_steps after the head of run(steps)
RunMaxSteps(rst, st, ms, hasN, N) ==
    IF IsFreshRun(rst, st) /\ hasN THEN N ELSE ms

\* line 256 leaving the step count of an earlier run
ResetStepsMutKeep(rst, st) == st

\* line 256: self.steps after the head of run()
ResetSteps(rst, st) == IF IsFreshRun(rst, st) THEN 0 ELSE st

\* line 257 leaving the backend's step count of an earlier run
ResetBackendStepsMutKeep(rst, st, bs) == bs

\* line 257: self.backend.steps after the head of run()
ResetBackendSteps(rst, st, bs) == IF IsFreshRun(rst, st) THEN 0 ELSE bs

\* lines 220-229 with the hooks called on a restart as well
RunPreClearsMutOnRestart(cb, path, rst) ==
    IF path # NoPath
    THEN [i \in 1..Len(SelectSeq(cb, HasClear)) |->
            Event("clear", SelectSeq(cb, HasClear)[i], 0, "pre")]
    ELSE <<>>

\* lines 220-229: the clear() hooks called by run_pre(), in registry order;
\* an observer without the hook raises AttributeError, which is passed over
RunPreClears(cb, path, rst) ==
    IF path # NoPath /\ ~rst
    THEN [i \in 1..Len(SelectSeq(cb, HasClear)) |->
            Event("clear", SelectSeq(cb, HasClear)[i], 0, "pre")]
    ELSE <<>>

\* lines 235-236 never adopting the backend's step count
RunPreStepsMutKeep(rst, st, bs) == st

\* lines 235-236: self.steps after run_pre()
RunPreSteps(rst, st, bs) == IF rst THEN bs ELSE st

\* lines 297-299: the termination handler writes a checkpoint
EndEvents(st) == WriteCheckpoint(TRUE, "none", st, "end").events

ReportLines == <<"simulation ended", "final steps", "final rmsd", "wall time",
                 "average TSP">>

\* lines 347-352 with the rmsd property of lines 183-188: the lines that
\* _report_end() logs, and what it raises.  f tells what backend.rmsd raises;
\* which lines are logged does not depend on the time elapsed.
ReportEnd(st, ist, sys, f) ==
    IF f.point = "report" /\ f.exc # "AttributeError"
    THEN [lines |-> SubSeq(ReportLines, 1, 2), raised |-> f.exc]
    ELSE LET t == WallTimePerStepParticle(st, ist, sys, MaxElapsed)
         IN  IF t.raised # "none"
             THEN [lines |-> SubSeq(ReportLines, 1, 4), raised |-> t.raised]
             ELSE [lines |-> ReportLines, raised |-> "none"]

\* lines 301-304 letting an error of the report out of the handler
ReportEscapesMutRaise(raised) == raised

\* lines 301-304: whatever the report raises is discarded
ReportEscapes(raised) == "none"

Goodbye(n) == <<LogEntry("goodbye", n)>>

\* lines 297-314 without the clause of lines 306-307: a user cancellation is
\* handled as any other error
LeaveMutNoInterruptClause(sig, st, ist, n, capable, sys, f) ==
    CASE sig = "SimulationEnd" ->
            LET w == WriteCheckpoint(capable,
                                     IF f.point = "end_checkpoint" THEN f.exc
                                     ELSE "none", st, "end")
                r == ReportEnd(st, ist, sys, f)
            IN  IF w.signal # "none"
                THEN [events |-> w.events, log |-> Goodbye(n + Len(w.events)),
                      outcome |-> "end", escaped |-> w.signal]
                ELSE [events |-> w.events,
                      log |-> [i \in 1..Len(r.lines) |->
                                 LogEntry(r.lines[i], n + Len(w.events))]
                              \o Goodbye(n + Len(w.events)),
                      outcome |-> "end", escaped |-> ReportEscapes(r.raised)]
      [] OTHER ->
            [events |-> <<>>,
             log |-> <<LogEntry("simulation failed", n)>> \o Goodbye(n),
             outcome |-> "failed", escaped |-> sig]

\* lines 297-314: how run() leaves its try block when sig is raised inside it
\* at step st, after n events: the events of the handler, what is logged, and
\* the exception that run() raises
Leave(sig, st, ist, n, capable, sys, f) ==
    CASE sig = "SimulationEnd" ->
            LET w == WriteCheckpoint(capable,
                                     IF f.point = "end_checkpoint" THEN f.exc
                                     ELSE "none", st, "end")
                r == ReportEnd(st, ist, sys, f)
            IN  IF w.signal # "none"
                THEN [events |-> w.events, log |-> Goodbye(n + Len(w.events)),
                      outcome |-> "end", escaped |-> w.signal]
                ELSE [events |-> w.events,
                      log |-> [i \in 1..Len(r.lines) |->
                                 LogEntry(r.lines[i], n + Len(w.events))]
                              \o Goodbye(n + Len(w.events)),
                      outcome |-> "end", escaped |-> ReportEscapes(r.raised)]
      [] sig = "KeyboardInterrupt" ->
            [events |-> <<>>, log |-> Goodbye(n),
             outcome |-> "interrupt", escaped |-> "none"]
      [] OTHER ->
            [events |-> <<>>,
             log |-> <<LogEntry("simulation failed", n)>> \o Goodbye(n),
             outcome |-> "failed", escaped |-> sig]

\* lines 225-229: the exception of a clear() hook that leaves run_pre()
HookEscapes(exc) == IF exc = "AttributeError" THEN "none" ELSE exc

\* lines 214-236: the events of run_pre() and the exception that leaves it,
\* when f tells what a clear() hook or backend.run_pre() raises
RunPre(cb, path, rst, st, f) ==
    LET clears == RunPreClears(cb, path, rst)
        raise == <<Event("raise", f.exc, st, "pre")>>
    IN  CASE f.point = "clear" ->
                IF HookEscapes(f.exc) = "none"
                THEN [events |-> SubSeq(clears, 1, f.k) \o raise
                                  \o SubSeq(clears, f.k + 1, Len(clears)),
                      signal |-> "none"]
                ELSE [events |-> SubSeq(clears, 1, f.k) \o raise,
                      signal |-> HookEscapes(f.exc)]
          [] f.point = "run_pre" ->
                [events |-> clears \o raise, signal |-> f.exc]
          [] OTHER -> [events |-> clears, signal |-> "none"]

\* line 260 registering the step targeter with the steps argument of run()
TargetStepsAddMutArgument(ms, hasN, N) ==
    [scheduler |-> SchedulerArg(IF hasN THEN N ELSE ms),
     args |-> <<IF hasN THEN N ELSE ms>>]

\* line 260: the scheduler and the argument that run() passes to add() for
\* the step targeter, ms being self.max_steps at that line
TargetStepsAdd(ms, hasN, N) ==
    [scheduler |-> SchedulerArg(ms), args |-> <<ms>>]

\* run(steps): lines 253-267, up to the try block, when f tells what the calls
\* of run_pre() raise; an exception of run_pre() leaves run() at once
RunHead(hasN, N, f) ==
    /\ pc = "idle"
    /\ LET ms  == RunMaxSteps(restart, steps, max_steps, hasN, N)
           st0 == ResetSteps(restart, steps)
           bs0 == ResetBackendSteps(restart, steps, backend_steps)
           cb1 == AddCallback(callback, "target_steps")
           reg == TargetStepsAdd(ms, hasN, N)
           pre == RunPre(cb1, output_path, restart, st0, f)
       IN  /\ f.point = "clear" =>
                 f.k \in 1..Len(RunPreClears(cb1, output_path, restart))
           /\ max_steps' = ms
           /\ fresh' = (~restart \/ steps = 0)
           /\ callback' = cb1
           /\ cbk_params' = AddParams(cbk_params, "target_steps",
                                      AsScheduler(reg.scheduler), reg.args)
           /\ added' = NoteAdd(added, "target_steps", reg.scheduler, reg.args)
           /\ call' = CallOf("run", "target_steps", callback, cbk_params,
                             IF hasN THEN <<N>> ELSE <<>>, steps, max_steps)
           /\ trace' = pre.events
           /\ IF pre.signal = "none"
              THEN /\ \E s \in BackendRunPre(restart, bs0) :
                        /\ backend_steps' = s
                        /\ steps' = RunPreSteps(restart, st0, s)
                   /\ initial_steps' = steps'
                   /\ pc' = "started"
                   /\ outcome' = "running"
              ELSE /\ backend_steps' = bs0
                   /\ steps' = st0
                   /\ initial_steps' = initial_steps
                   /\ pc' = "done"
                   /\ outcome' = "pre"
           /\ escaped' = pre.signal
    /\ log' = <<>>
    /\ iter' = NoIter
    /\ UNCHANGED <<restart, output_path, checkpoint_interval, has_checkpoint>>

\* run(steps) with a backend and observers that raise nothing before the try
\* block.  hasN is FALSE for steps=None.
RunStart(hasN, N) == RunHead(hasN, N, NoFault)

\* run(steps) when a clear() hook or backend.run_pre() raises
RunStartRaises(hasN, N, f) ==
    /\ f.point \in {"clear", "run_pre"}
    /\ RunHead(hasN, N, f)

\* lines 271-276 with the targeters notified after the other observers
InitialBatchMutOrdinaryFirst(cb, p, st) ==
    LET r1 == Notify(IF st = 0 THEN NonTargeters(cb) ELSE Speedometers(cb),
                     p, st, "initial")
        r2 == Notify(Targeters(cb), p, st, "initial")
    IN  [events |-> r1.events \o r2.events, signal |-> r2.signal]

\* lines 271-276: what the initial check notifies
InitialBatch(cb, p, st) ==
    LET r1 == Notify(Targeters(cb), p, st, "initial")
    IN  IF r1.signal = "SimulationEnd" THEN r1
        ELSE LET r2 == Notify(IF st = 0 THEN NonTargeters(cb) ELSE Speedometers(cb),
                              p, st, "initial")
             IN  [events |-> r1.events \o r2.events, signal |-> r2.signal]

\* lines 271-276: the observers that the initial check calls, in order, if
\* none of them raises
InitialSeq(cb, st) ==
    Targeters(cb) \o (IF st = 0 THEN NonTargeters(cb) ELSE Speedometers(cb))

\* run(): lines 269-278, the initial check, and lines 297-314 when it raises;
\* f tells what a call into observer or backend code raises; the report reads
\* the system attached to the backend at that time
InitialStep(f) ==
    /\ pc = "started"
    /\ LET seq == InitialSeq(callback, steps)
           r == IF f.point = "notify"
                THEN NotifyRaising(seq, cbk_params, steps, "initial", f.k, f.exc)
                ELSE InitialBatch(callback, cbk_params, steps)
       IN  /\ f.point \in {"none", "notify", "end_checkpoint", "report"}
           /\ f.point = "notify" => (f.k \in 1..Len(seq) /\ r.signal = f.exc)
           /\ f.point = "end_checkpoint" =>
                 (r.signal = "SimulationEnd" /\ has_checkpoint)
           /\ f.point = "report" => r.signal = "SimulationEnd"
           /\ IF r.signal = "none"
              THEN /\ trace' = trace \o r.events
                   /\ pc' = "loop"
                   /\ UNCHANGED <<outcome, log, escaped>>
              ELSE \E sys \in Systems :
                     LET l == Leave(r.signal, steps, initial_steps,
                                    Len(trace) + Len(r.events), has_checkpoint,
                                    sys, f)
                     IN  /\ trace' = trace \o r.events \o l.events
                         /\ pc' = "done"
                         /\ outcome' = l.outcome
                         /\ log' = l.log
                         /\ escaped' = l.escaped
    /\ UNCHANGED <<callback, cbk_params, steps, backend_steps, initial_steps,
                   max_steps, restart, output_path, checkpoint_interval, fresh,
                   iter, added, has_checkpoint>>
    /\ call' = NoCall

\* the initial check when no call raises anything but SimulationEnd
InitialNotify == InitialStep(NoFault)

\* the initial check when an observer, the final checkpoint write or the
\* report raises
InitialNotifyRaises(f) ==
    /\ f.point # "none"
    /\ InitialStep(f)

\* line 281: the trigger of every registered observer, in registry order
AllSteps(cb, p, st) ==
    [i \in 1..Len(cb) |-> SchedulerCall(p[cb[i]].scheduler, st)]

\* line 282
NextCheckpoint(interval, st) == SchedulerCall(Scheduler(interval), st)

\* line 283 with the checkpoint trigger left out of the minimum
NextStepMutNoCheckpoint(all_steps, next_checkpoint) ==
    IF all_steps = <<>> THEN next_checkpoint ELSE MinOf(all_steps)

\* line 283
NextStep(all_steps, next_checkpoint) == MinOf(Append(all_steps, next_checkpoint))

RECURSIVE IdsFrom(_, _, _)
IdsFrom(all_steps, next_step, i) ==
    IF i > Len(all_steps) THEN <<>>
    ELSE (IF all_steps[i] = next_step THEN <<i>> ELSE <<>>)
         \o IdsFrom(all_steps, next_step, i + 1)

\* lines 288-289 taking only the first observer due
NextObserversMutFirst(cb, all_steps, next_step) ==
    LET ids == IdsFrom(all_steps, next_step, 1)
    IN  IF ids = <<>> THEN <<>> ELSE <<cb[ids[1]]>>

\* lines 288-289 with the observers due taken from the end of the registry
NextObserversMutReversed(cb, all_steps, next_step) ==
    LET ids == IdsFrom(all_steps, next_step, 1)
    IN  [j \in 1..Len(ids) |-> cb[ids[Len(ids) + 1 - j]]]

\* lines 288-289: the observers whose trigger is next_step, in registry order
NextObservers(cb, all_steps, next_step) ==
    LET ids == IdsFrom(all_steps, next_step, 1)
    IN  [j \in 1..Len(ids) |-> cb[ids[j]]]

\* lines 294-295 writing a checkpoint in every iteration
LoopCheckpointMutAlways(st, next_checkpoint) ==
    <<Event("checkpoint", "backend", st, "loop")>>

\* lines 294-295: the checkpoint of an iteration whose batch raised nothing
LoopCheckpoint(st, next_checkpoint) ==
    IF st = next_checkpoint THEN <<Event("checkpoint", "backend", st, "loop")>>
    ELSE <<>>

\* lines 284-295 with the checkpoint written before the observers are notified
IterationEventsMutCheckpointFirst(adv, notified, request) ==
    adv \o request \o notified

\* lines 284-295: an iteration advances the backend, notifies the observers
\* due and then requests the checkpoint
IterationEvents(adv, notified, request) == adv \o notified \o request

\* lines 294-295 with write_checkpoint(): the checkpoint request of an
\* iteration whose batch raised nothing
LoopRequest(st, next_checkpoint, capable, raised) ==
    IF LoopCheckpoint(st, next_checkpoint) = <<>>
    THEN [events |-> <<>>, signal |-> "none"]
    ELSE WriteCheckpoint(capable, raised, st, "loop")

\* lines 244-246 with the backend's step count left as the backend had it
RunUntilMutBackendKeeps(st, bs, next_step) ==
    [steps |-> next_step, backend_steps |-> bs]

\* lines 239-246: run_until(steps) advances the backend, then sets the step
\* count of the backend and of the engine
RunUntil(st, bs, next_step) ==
    [steps |-> next_step, backend_steps |-> next_step]

\* run(): lines 279-295, one iteration of the main loop (run_until included),
\* and lines 297-314 when it raises.  Each value of the iteration is bound
\* once, as a local variable of the code is.
LoopStep(f) ==
    /\ pc = "loop"
    /\ f.point \in {"none", "run_until", "notify", "checkpoint",
                    "end_checkpoint", "report"}
    /\ \E all_steps \in {AllSteps(callback, cbk_params, steps)},
          next_checkpoint \in {NextCheckpoint(checkpoint_interval, steps)} :
       \E next_step \in {NextStep(all_steps, next_checkpoint)} :
       \E next_observers \in {NextObservers(callback, all_steps, next_step)},
          ran \in {RunUntil(steps, backend_steps, next_step)},
          adv \in {<<Event("run_until", "backend", next_step, "loop")>>},
          failed \in {f.point = "run_until"} :
         /\ f.point = "notify" => f.k \in 1..Len(next_observers)
         \* lines 245-246 are not reached when backend.run_until() raises
         /\ \E st \in {IF failed THEN steps ELSE ran.steps},
               r \in {IF failed
                      THEN [events |-> <<Event("raise", f.exc, steps, "loop")>>,
                            signal |-> f.exc]
                      ELSE IF f.point = "notify"
                      THEN NotifyRaising(next_observers, cbk_params, next_step,
                                         "loop", f.k, f.exc)
                      ELSE Notify(next_observers, cbk_params, next_step,
                                  "loop")} :
            \E w \in {IF r.signal = "none"
                      THEN LoopRequest(next_step, next_checkpoint,
                                       has_checkpoint,
                                       IF f.point = "checkpoint" THEN f.exc
                                       ELSE "none")
                      ELSE [events |-> <<>>, signal |-> r.signal]} :
            \E body \in {IterationEvents(adv, r.events, w.events)} :
              /\ f.point = "notify" => r.signal = f.exc
              /\ f.point = "checkpoint" =>
                    /\ r.signal = "none"
                    /\ LoopCheckpoint(next_step, next_checkpoint) # <<>>
                    /\ has_checkpoint
              /\ f.point = "end_checkpoint" =>
                    (r.signal = "SimulationEnd" /\ has_checkpoint)
              /\ f.point = "report" => r.signal = "SimulationEnd"
              /\ steps' = st
              /\ backend_steps' = IF failed THEN backend_steps
                                  ELSE ran.backend_steps
              /\ iter' = [all_steps |-> all_steps, order |-> callback,
                          next_checkpoint |-> next_checkpoint,
                          next_step |-> next_step]
              /\ IF w.signal = "none"
                 THEN /\ trace' = trace \o body
                      /\ pc' = "loop"
                      /\ UNCHANGED <<outcome, log, escaped>>
                 ELSE \E sys \in Systems :
                      \E l \in {Leave(w.signal, st, initial_steps,
                                      Len(trace) + Len(body), has_checkpoint,
                                      sys, f)} :
                        /\ trace' = trace \o body \o l.events
                        /\ pc' = "done"
                        /\ outcome' = l.outcome
                        /\ log' = l.log
                        /\ escaped' = l.escaped
    /\ UNCHANGED <<callback, cbk_params, initial_steps, max_steps, restart,
                   output_path, checkpoint_interval, fresh, added, call,
                   has_checkpoint>>

\* an iteration in which no call raises anything but SimulationEnd
LoopIter == LoopStep(NoFault)

\* an iteration in which the backend advance, an observer, a checkpoint write
\* or the report raises
LoopIterRaises(f) ==
    /\ f.point # "none"
    /\ LoopStep(f)

\* what an observer does to the registry of the Simulation while it is
\* called: sim.add(o, interval, *args), sim.remove(o), or nothing
AddAct(o, in) == [op |-> "add", o |-> o, interval |-> in.interval,
                  args |-> in.args]
RemoveAct(o) == [op |-> "remove", o |-> o, interval |-> 0, args |-> <<>>]

Acts(observers) ==
    {RemoveAct(o) : o \in observers}
    \cup UNION {{AddAct(o, in) : in \in AddInputs(o)} : o \in observers}

\* lines 112-155: self._callback after the call a of add() or remove()
ActCallback(cb, a) ==
    CASE a.op = "add" -> AddCallback(cb, a.o)
      [] a.op = "remove" -> RemoveCallback(cb, a.o)
      [] OTHER -> cb

\* lines 112-155: self._cbk_params after the call a of add() or remove()
ActParams(cb, p, a) ==
    CASE a.op = "add" ->
            AddParams(p, a.o, AsScheduler(IntArg(a.interval)), a.args)
      [] a.op = "remove" -> RemoveParams(cb, p, a.o)
      [] OTHER -> p

\* the latest add() calls of the registered observers after the call a
ActAdded(ad, cb, a) ==
    CASE a.op = "add" -> NoteAdd(ad, a.o, IntArg(a.interval), a.args)
      [] a.op = "remove" ->
            IF InSeq(a.o, cb) THEN SelectSeq(ad, LAMBDA x : x.o # a.o) ELSE ad
      [] OTHER -> ad

\* lines 157-162: notify(observers) with the stored parameters p as they are
\* when each observer is reached; self._cbk_params[o] of line 160 raises
\* KeyError for an observer that has no stored parameters
RECURSIVE NotifyStored(_, _, _, _)
NotifyStored(observers, p, st, phase) ==
    IF observers = <<>> THEN [events |-> <<>>, signal |-> "none"]
    ELSE LET o == Head(observers)
         IN  IF o \notin DOMAIN p
             THEN [events |-> <<Event("missing", o, st, phase),
                                Event("raise", "KeyError", st, phase)>>,
                   signal |-> "KeyError"]
             ELSE IF RaisesEnd(o, st, p[o].args)
             THEN [events |-> <<Event("notify", o, st, phase)>>,
                   signal |-> "SimulationEnd"]
             ELSE LET rest == NotifyStored(Tail(observers), p, st, phase)
                  IN  [events |-> <<Event("notify", o, st, phase)>>
                                   \o rest.events,
                       signal |-> rest.signal]

\* lines 157-162: notify(observers) when the k-th observer, while it is
\* called, makes the call a of add() or remove() on the Simulation: the
\* observers after it are looked up in the registry that the call has left
NotifyActing(observers, cb, p, st, phase, k, a) ==
    LET pre  == Notify(SubSeq(observers, 1, k - 1), p, st, phase)
        o    == observers[k]
        cb1  == ActCallback(cb, a)
        p1   == ActParams(cb, p, a)
        here == <<Event("notify", o, st, phase), Event(a.op, a.o, st, phase)>>
    IN  IF pre.signal # "none"
        THEN [events |-> pre.events, signal |-> pre.signal,
              callback |-> cb, params |-> p]
        ELSE IF RaisesEnd(o, st, p[o].args)
        THEN [events |-> pre.events \o here, signal |-> "SimulationEnd",
              callback |-> cb1, params |-> p1]
        ELSE LET rest == NotifyStored(SubSeq(observers, k + 1, Len(observers)),
                                      p1, st, phase)
             IN  [events |-> pre.events \o here \o rest.events,
                  signal |-> rest.signal, callback |-> cb1, params |-> p1]

\* run(): lines 279-295, one iteration of the main loop in which the k-th
\* observer notified, one registered by a caller, makes the call a of add() or
\* remove(); lines 297-314 when the batch raises
LoopIterActing(k, a) ==
    /\ pc = "loop"
    /\ a.op # "none"
    /\ \E all_steps \in {AllSteps(callback, cbk_params, steps)},
          next_checkpoint \in {NextCheckpoint(checkpoint_interval, steps)} :
       \E next_step \in {NextStep(all_steps, next_checkpoint)} :
       \E next_observers \in {NextObservers(callback, all_steps, next_step)},
          ran \in {RunUntil(steps, backend_steps, next_step)},
          adv \in {<<Event("run_until", "backend", next_step, "loop")>>} :
         /\ k \in 1..Len(next_observers)
         /\ next_observers[k] \in UserObservers
         /\ \E r \in {NotifyActing(next_observers, callback, cbk_params,
                                   next_step, "loop", k, a)} :
            \E w \in {IF r.signal = "none"
                      THEN LoopRequest(next_step, next_checkpoint,
                                       has_checkpoint, "none")
                      ELSE [events |-> <<>>, signal |-> r.signal]} :
            \E body \in {IterationEvents(adv, r.events, w.events)} :
              /\ steps' = ran.steps
              /\ backend_steps' = ran.backend_steps
              /\ callback' = r.callback
              /\ cbk_params' = r.params
              /\ added' = ActAdded(added, callback, a)
              /\ iter' = [all_steps |-> all_steps, order |-> callback,
                          next_checkpoint |-> next_checkpoint,
                          next_step |-> next_step]
              /\ IF w.signal = "none"
                 THEN /\ trace' = trace \o body
                      /\ pc' = "loop"
                      /\ UNCHANGED <<outcome, log, escaped>>
                 ELSE \E sys \in Systems :
                      \E l \in {Leave(w.signal, ran.steps, initial_steps,
                                      Len(trace) + Len(body), has_checkpoint,
                                      sys, NoFault)} :
                        /\ trace' = trace \o body \o l.events
                        /\ pc' = "done"
                        /\ outcome' = l.outcome
                        /\ log' = l.log
                        /\ escaped' = l.escaped
    /\ UNCHANGED <<initial_steps, max_steps, restart, output_path,
                   checkpoint_interval, fresh, call, has_checkpoint>>

\* run() returns to its caller, or raises; the record of the run is dropped
RunReturn ==
    /\ pc = "done"
    /\ pc' = "idle"
    /\ outcome' = "none"
    /\ trace' = <<>>
    /\ iter' = NoIter
    /\ fresh' = FALSE
    /\ log' = <<>>
    /\ escaped' = "none"
    /\ UNCHANGED <<callback, cbk_params, steps, backend_steps, initial_steps,
                   max_steps, restart, output_path, checkpoint_interval, added,
                   call, has_checkpoint>>

\* wall_time_per_step_particle() called between runs, with the system sys
\* attached to the backend and el seconds on the clock
WallTimeQuery(sys, el) ==
    /\ pc = "idle"
    /\ call' = [CallOf("wall_time_per_step_particle", "none", callback,
                       cbk_params, <<>>, steps, max_steps)
                  EXCEPT !.result = WallTimePerStepParticle(steps, initial_steps,
                                                            sys, el),
                         !.given = <<sys>>]
    /\ pc' = "called"
    /\ UNCHANGED <<callback, cbk_params, added>>
    /\ UNCHANGED unchangedRun

(***************************************************************************)
(* Specifications.                                                         *)
(***************************************************************************)
\* Simulation(backend, output_path, steps, checkpoint_interval, restart=...)
Init ==
    /\ callback = <<>>
    /\ cbk_params = <<>>
    /\ steps = 0
    /\ backend_steps = 0
    /\ initial_steps = 0
    /\ max_steps = MaxSteps
    /\ restart \in BOOLEAN
    /\ output_path \in OutputPaths
    /\ checkpoint_interval \in {0, MaxCheckpoint}
    /\ pc = "idle"
    /\ outcome = "none"
    /\ fresh = FALSE
    /\ trace = <<>>
    /\ iter = NoIter
    /\ added = <<>>
    /\ call = NoCall
    /\ has_checkpoint = TRUE
    /\ log = <<>>
    /\ escaped = "none"

Next ==
    \/ \E o \in UserObservers :
         \E in \in AddInputs(o) : Add(o, IntArg(in.interval), in.args)
    \/ \E o \in UserObservers : Remove(o)
    \/ CallReturn
    \/ RunStart(FALSE, 0)
    \/ \E N \in 0..MaxSteps : RunStart(TRUE, N)
    \/ InitialNotify
    \/ LoopIter
    \/ RunReturn

Spec == Init /\ [][Next]_vars

\* the observers with a fixed interval that raise nothing
LiveObservers == {"writer", "speedometer"}

\* add, remove and run with observers that raise nothing
NextLive ==
    \/ \E o \in LiveObservers :
         \E in \in AddInputs(o) : Add(o, IntArg(in.interval), in.args)
    \/ \E o \in LiveObservers : Remove(o)
    \/ CallReturn
    \/ RunStart(FALSE, 0)
    \/ \E N \in 0..MaxSteps : RunStart(TRUE, N)
    \/ InitialNotify
    \/ LoopIter
    \/ RunReturn

\* run() is one sequential call: once it has passed run_pre() the initial
\* check is executed, and while the loop is running its next iteration is
\* executed, the backend advance and every observer returning
SpecLive ==
    /\ Init
    /\ [][NextLive]_vars
    /\ WF_vars(InitialNotify)
    /\ WF_vars(LoopIter)

\* a Simulation without restart and with one ordinary observer of interval K
InitScenario ==
    /\ callback = <<"writer">>
    /\ steps = 0
    /\ backend_steps = 0
    /\ initial_steps = 0
    /\ max_steps = 0
    /\ restart = FALSE
    /\ output_path \in OutputPaths
    /\ checkpoint_interval \in 0..MaxC
    /\ pc = "idle"
    /\ outcome = "none"
    /\ fresh = FALSE
    /\ trace = <<>>
    /\ iter = NoIter
    /\ \E K \in 1..MaxK :
         /\ cbk_params = [x \in {"writer"} |->
                            [scheduler |-> Scheduler(K), args |-> <<>>]]
         /\ added = <<[o |-> "writer", interval |-> K, args |-> <<>>]>>
    /\ call = NoCall
    /\ has_checkpoint = TRUE
    /\ log = <<>>
    /\ escaped = "none"

NextScenario ==
    \/ \E T \in 0..MaxT : RunStart(TRUE, T)
    \/ InitialNotify
    \/ LoopIter
    \/ RunReturn

SpecScenario == InitScenario /\ [][NextScenario]_vars

\* a Simulation whose backend may lack write_checkpoint, and whose backend and
\* observers may raise
InitFaults ==
    /\ callback = <<>>
    /\ cbk_params = <<>>
    /\ steps = 0
    /\ backend_steps = 0
    /\ initial_steps = 0
    /\ max_steps = MaxSteps
    /\ restart \in BOOLEAN
    /\ output_path \in OutputPaths
    /\ checkpoint_interval \in {0, MaxCheckpoint}
    /\ pc = "idle"
    /\ outcome = "none"
    /\ fresh = FALSE
    /\ trace = <<>>
    /\ iter = NoIter
    /\ added = <<>>
    /\ call = NoCall
    /\ has_checkpoint \in BOOLEAN
    /\ log = <<>>
    /\ escaped = "none"

\* the observers registered by the callers of the runs that may fail: one with
\* a reset hook and one targeter
FaultObservers == {"writer", "Target_RMSD"}

NextFaults ==
    \/ \E o \in FaultObservers :
         \E in \in AddInputs(o) : Add(o, IntArg(in.interval), in.args)
    \/ \E o \in FaultObservers : Remove(o)
    \/ CallReturn
    \/ \E sys \in Systems, el \in Elapsed : WallTimeQuery(sys, el)
    \/ RunStart(FALSE, 0)
    \/ \E N \in {0, MaxSteps} : RunStart(TRUE, N)
    \/ \E f \in Faults({"clear", "run_pre"}) : RunStartRaises(FALSE, 0, f)
    \/ InitialNotify
    \/ \E f \in Faults({"notify", "end_checkpoint", "report"}) :
         InitialNotifyRaises(f)
    \/ LoopIter
    \/ \E f \in Faults({"run_until", "notify", "checkpoint", "end_checkpoint",
                         "report"}) : LoopIterRaises(f)
    \/ RunReturn

SpecFaults == InitFaults /\ [][NextFaults]_vars

\* add, remove and run with observers that may call add() or remove() on the
\* Simulation while they are notified in the main loop
NextActing ==
    \/ \E o \in LiveObservers :
         \E in \in AddInputs(o) : Add(o, IntArg(in.interval), in.args)
    \/ \E o \in LiveObservers : Remove(o)
    \/ CallReturn
    \/ \E N \in 0..MaxSteps : RunStart(TRUE, N)
    \/ InitialNotify
    \/ LoopIter
    \/ \E k \in 1..Cardinality(LiveObservers), a \in Acts(LiveObservers) :
         LoopIterActing(k, a)
    \/ RunReturn

SpecActing == Init /\ [][NextActing]_vars


(***************************************************************************)
(* Properties of the callback registry.                                    *)
(***************************************************************************)
\* roles as the naming convention states them: a name with the substring
\* "target", in any case, is a targeter
TargeterIds == {"Target_RMSD", "target_steps"}
OrdinaryIds == {"writer", "speedometer"}

SameRole(a, b) == (a \in TargeterIds) = (b \in TargeterIds)

Occurrences(o, s) == Cardinality({i \in 1..Len(s) : s[i] = o})

\* C1: after any sequence of add and remove calls and of registrations done by
\* run(), every ordinary observer stands before every targeter in the
\* notification order
C1_OrdinaryBeforeTargeter ==
    \A i, j \in 1..Len(callback) :
        (callback[i] \in OrdinaryIds /\ callback[j] \in TargeterIds) => i < j

\* an ordinary observer has just been added while both targeters were registered
C1_Witness ==
    /\ pc = "called"
    /\ call.op = "add"
    /\ call.o \in OrdinaryIds
    /\ TargeterIds \subseteq Range(callback)
    /\ InSeq(call.o, callback)

\* C2 as stated: within a role, the observer whose latest add() came earlier
\* stands earlier in the notification order
C2_InsertionOrderKept ==
    \A i, j \in 1..Len(added) :
        (i < j /\ SameRole(added[i].o, added[j].o)
              /\ InSeq(added[i].o, callback) /\ InSeq(added[j].o, callback))
            => IndexOf(added[i].o, callback) < IndexOf(added[j].o, callback)

\* C2 amended: targeters stand in the order of their latest add(); ordinary
\* observers stand in the reverse order of their latest add(), the one added
\* last standing first
C2_OrderWithinRole ==
    \A i, j \in 1..Len(added) :
        (i < j /\ SameRole(added[i].o, added[j].o))
            => /\ InSeq(added[i].o, callback)
               /\ InSeq(added[j].o, callback)
               /\ IF added[i].o \in TargeterIds
                  THEN IndexOf(added[i].o, callback) < IndexOf(added[j].o, callback)
                  ELSE IndexOf(added[j].o, callback) < IndexOf(added[i].o, callback)

\* two ordinary observers and two targeters are registered, and the observer
\* just added was registered before
C2_Witness ==
    /\ pc = "called"
    /\ call.op = "add"
    /\ call.old # <<>>
    /\ Range(callback) = Observers

\* C3: every observer occurs at most once in the notification order; every
\* observer whose add() was not undone by remove() occurs exactly once, with
\* the scheduler and the arguments of its latest add()
C3_SingleLatestRegistration ==
    /\ \A o \in Observers : Occurrences(o, callback) <= 1
    /\ \A i \in 1..Len(added) :
         /\ Occurrences(added[i].o, callback) = 1
         /\ added[i].o \in DOMAIN cbk_params
         /\ cbk_params[added[i].o].scheduler = Scheduler(added[i].interval)
         /\ cbk_params[added[i].o].args = added[i].args
    /\ \A i, j \in 1..Len(added) : added[i].o = added[j].o => i = j

\* add() has just replaced a registration that had another scheduler and
\* other arguments
C3_Witness ==
    /\ pc = "called"
    /\ call.op = "add"
    /\ call.old # <<>>
    /\ call.old[1].scheduler # cbk_params[call.o].scheduler
    /\ call.old[1].args # cbk_params[call.o].args
    /\ Occurrences(call.o, callback) = 1


(***************************************************************************)
(* Properties of the main loop.                                            *)
(***************************************************************************)
Indices(s, P(_)) == {i \in 1..Len(s) : P(s[i])}

IsAdvance(e) == e.ev = "run_until"
IsNotify(e) == e.ev = "notify"
IsCheckpoint(e) == e.ev = "checkpoint"
IsLoopCheckpoint(e) == e.ev = "checkpoint" /\ e.phase = "loop"
IsEndCheckpoint(e) == e.ev = "checkpoint" /\ e.phase = "end"

\* the position in the trace of the latest backend advance
LastAdvance == CHOOSE i \in Indices(trace, IsAdvance) :
                  \A j \in Indices(trace, IsAdvance) : j <= i

\* the observers notified since the latest backend advance, in order
LastBatch ==
    LET tail == SubSeq(trace, LastAdvance + 1, Len(trace))
        n == SelectSeq(tail, IsNotify)
    IN  [i \in 1..Len(n) |-> n[i].o]

\* the registered observers whose trigger was the step of the latest iteration,
\* in registry order
DueSeq ==
    LET idx == {i \in 1..Len(iter.order) : iter.all_steps[i] = iter.next_step}
        pos(k) == CHOOSE i \in idx : Cardinality({j \in idx : j < i}) = k - 1
    IN  [k \in 1..Cardinality(idx) |-> iter.order[pos(k)]]

IterMinimum ==
    /\ iter.next_step <= iter.next_checkpoint
    /\ \A i \in 1..Len(iter.all_steps) : iter.next_step <= iter.all_steps[i]
    /\ \/ iter.next_step = iter.next_checkpoint
       \/ \E i \in 1..Len(iter.all_steps) : iter.next_step = iter.all_steps[i]

\* C4 as stated: in every iteration the observers notified are exactly the
\* registered observers whose scheduler returned next_step, the minimum of all
\* triggers; none of them is skipped
C4_BatchIsAllDue ==
    iter # NoIter =>
        /\ IterMinimum
        /\ steps = iter.next_step
        /\ Range(LastBatch) = Range(DueSeq)

\* C4 amended: the observers notified in an iteration are, in registry order,
\* those whose scheduler returned next_step (the minimum of all triggers), up
\* to and including the first one that raises the termination signal; only
\* targeters standing after that one are left out, and no observer with a
\* larger trigger is notified
C4_BatchIsDuePrefix ==
    iter # NoIter =>
        /\ IterMinimum
        /\ steps = iter.next_step
        /\ Len(LastBatch) <= Len(DueSeq)
        /\ LastBatch = SubSeq(DueSeq, 1, Len(LastBatch))
        /\ Len(LastBatch) < Len(DueSeq) =>
              /\ pc = "done"
              /\ outcome = "end"
              /\ Len(LastBatch) >= 1
              /\ \A k \in Len(LastBatch)..Len(DueSeq) : DueSeq[k] \in TargeterIds
        /\ pc = "loop" => LastBatch = DueSeq

\* an iteration has notified three observers that were due at the same step
C4_Witness ==
    /\ iter # NoIter
    /\ pc = "loop"
    /\ Len(LastBatch) >= 3
    /\ \E i \in 1..Len(iter.all_steps) : iter.all_steps[i] > iter.next_step

LoopCheckpointsAt(st) ==
    Cardinality({i \in Indices(trace, IsLoopCheckpoint) : trace[i].step = st})

\* C5 as stated: a checkpoint is written inside the main loop at a step if and
\* only if the step is the trigger of the checkpoint scheduler, and a
\* checkpoint is written at normal termination
C5_CheckpointIffTrigger ==
    /\ iter # NoIter =>
          (LoopCheckpointsAt(iter.next_step) >= 1
              <=> iter.next_step = iter.next_checkpoint)
    /\ (pc = "done" /\ outcome = "end") => Indices(trace, IsEndCheckpoint) # {}

\* C5 amended: in an iteration whose batch raises no termination signal a
\* checkpoint is written inside the loop, once, if and only if the step is the
\* trigger of the checkpoint scheduler; the terminating iteration writes none
\* inside the loop; at normal termination the handler writes exactly one
\* checkpoint, at the final step, also when the scheduler never fires
C5_CheckpointInCompletedIterations ==
    /\ iter # NoIter =>
          /\ pc = "loop" =>
                (LoopCheckpointsAt(iter.next_step) = 1
                    <=> iter.next_step = iter.next_checkpoint)
          /\ pc = "loop" => LoopCheckpointsAt(iter.next_step) <= 1
          /\ pc = "done" => LoopCheckpointsAt(iter.next_step) = 0
    /\ \A i \in Indices(trace, IsLoopCheckpoint) :
          /\ checkpoint_interval > 0
          /\ trace[i].step % checkpoint_interval = 0
    /\ (pc = "done" /\ outcome = "end") =>
          /\ Cardinality(Indices(trace, IsEndCheckpoint)) = 1
          /\ IsEndCheckpoint(trace[Len(trace)])
          /\ trace[Len(trace)].step = steps
    /\ pc # "done" => Indices(trace, IsEndCheckpoint) = {}

\* a run has ended normally after a checkpoint written inside the loop
C5_Witness ==
    /\ pc = "done"
    /\ outcome = "end"
    /\ Indices(trace, IsLoopCheckpoint) # {}
    /\ Indices(trace, IsEndCheckpoint) # {}

(***************************************************************************)
(* The scenario of one ordinary observer (SpecScenario).                   *)
(***************************************************************************)
IsWriterLoopNotify(e) == e.ev = "notify" /\ e.o = "writer" /\ e.phase = "loop"

StepsOf(events) == [i \in 1..Len(events) |-> events[i].step]

ScenarioK == cbk_params["writer"].scheduler.interval

\* the positive multiples of k in lo..hi, as the increasing sequence
RECURSIVE MultiplesFrom(_, _, _)
MultiplesFrom(k, m, hi) ==
    IF k <= 0 \/ m > hi THEN <<>> ELSE <<m>> \o MultiplesFrom(k, m + k, hi)

Multiples(k, hi) == MultiplesFrom(k, k, hi)

\* C6: a fresh run with target T, checkpoint interval C and one ordinary
\* observer of interval K notifies the observer in the loop at the positive
\* multiples of K up to T and at no other step, writes a checkpoint once at
\* each positive multiple of C below T and once at T, and ends when the step
\* targeter fires at step T; for T=10, C=5, K=3: observer at 3, 6, 9 and
\* checkpoints at 5 and 10
C6_Scenario ==
    /\ \A i \in Indices(trace, IsWriterLoopNotify) :
          /\ trace[i].step % ScenarioK = 0
          /\ trace[i].step > 0
          /\ trace[i].step <= max_steps
    /\ pc \in {"started", "loop", "done"} => steps <= max_steps
    /\ (pc = "done") =>
          /\ outcome = "end"
          /\ steps = max_steps
          /\ StepsOf(SelectSeq(trace, IsWriterLoopNotify))
                = Multiples(ScenarioK, max_steps)
          /\ StepsOf(SelectSeq(trace, IsCheckpoint))
                = Multiples(checkpoint_interval, max_steps - 1) \o <<max_steps>>
          /\ LET n == SelectSeq(trace, IsNotify)
             IN  /\ n[Len(n)].o = "target_steps"
                 /\ n[Len(n)].step = max_steps
                 /\ \A i \in 1..(Len(n) - 1) :
                       ~(n[i].o = "target_steps" /\ n[i].step >= max_steps)
          /\ (max_steps = 10 /\ checkpoint_interval = 5 /\ ScenarioK = 3) =>
                /\ StepsOf(SelectSeq(trace, IsWriterLoopNotify)) = <<3, 6, 9>>
                /\ StepsOf(SelectSeq(trace, IsCheckpoint)) = <<5, 10>>

\* the run with T=10, C=5, K=3 has ended
C6_Witness ==
    /\ pc = "done"
    /\ max_steps = 10
    /\ checkpoint_interval = 5
    /\ ScenarioK = 3
    /\ Len(SelectSeq(trace, IsWriterLoopNotify)) = 3


(***************************************************************************)
(* Properties of the restart handling.                                     *)
(***************************************************************************)
InRun == pc \in {"started", "loop", "done"}

\* the initial check is about to run, or has just run and stepping begins
BeforeStepping == pc = "started" \/ (pc = "loop" /\ iter = NoIter)

IsClear(e) == e.ev = "clear"

ClearsOf(o) == Cardinality({i \in Indices(trace, IsClear) : trace[i].o = o})

\* C7 as stated: on every fresh run (restart false, or step count zero when
\* run() is called) the clear() hook of each registered observer that has one
\* is invoked once during pre-run, for any output path
C7_ClearOnFreshRun ==
    (InRun /\ fresh) =>
        \A o \in Range(callback) : HasClear(o) => ClearsOf(o) = 1

\* C7 amended: on every run with restart false and an output path configured
\* the clear() hook of each registered observer that has one is invoked once,
\* during pre-run and before anything else; an observer without the hook is
\* passed over; with restart true or without an output path no hook is invoked
C7_ClearOnNonRestartWithPath ==
    InRun =>
        /\ \A o \in Observers :
              ClearsOf(o) = IF /\ InSeq(o, callback)
                               /\ o = "writer"
                               /\ ~restart
                               /\ output_path # NoPath
                            THEN 1 ELSE 0
        /\ \A i \in Indices(trace, IsClear) :
              \A j \in 1..Len(trace) : j < i => IsClear(trace[j])

\* pre-run has called the hook of the writer and passed over two observers
\* that have none
C7_Witness ==
    /\ pc = "started"
    /\ ~restart
    /\ output_path # NoPath
    /\ ClearsOf("writer") = 1
    /\ {"speedometer", "target_steps"} \subseteq Range(callback)

\* C8: on a resumed run (restart true, the backend's pre-run hook reports
\* s > 0) no reset hook is invoked during the whole run, and when stepping
\* begins the step count and the initial step count both equal s
C8_ResumeAdoptsBackendSteps ==
    /\ (InRun /\ restart) => Indices(trace, IsClear) = {}
    /\ (BeforeStepping /\ restart /\ backend_steps > 0) =>
          /\ steps = backend_steps
          /\ initial_steps = backend_steps
    /\ (InRun /\ restart) => initial_steps <= steps

\* a run resumes at a step between 0 and its target, with an observer that
\* has a reset hook and an output path
C8_Witness ==
    /\ pc = "loop"
    /\ iter = NoIter
    /\ restart
    /\ backend_steps > 0
    /\ backend_steps < max_steps
    /\ steps = backend_steps
    /\ InSeq("writer", callback)
    /\ output_path # NoPath

IsInitialNotify(e) == e.ev = "notify" /\ e.phase = "initial"

\* C9: on a run with restart false the step count of the engine and of the
\* backend are both 0 at the initial notification and when the main loop
\* starts, whatever an earlier run left in them
C9_FreshRunStartsAtZero ==
    /\ (BeforeStepping /\ ~restart) =>
          /\ steps = 0
          /\ backend_steps = 0
          /\ initial_steps = 0
    /\ (InRun /\ ~restart) =>
          \A i \in Indices(trace, IsInitialNotify) : trace[i].step = 0

\* a run with restart false starts after an earlier run had left a positive
\* step count
C9_Witness ==
    /\ pc = "started"
    /\ ~restart
    /\ call.op = "run"
    /\ call.steps0 > 0
    /\ steps = 0
    /\ backend_steps = 0

TargetStepsParams(n) == [scheduler |-> [interval |-> n], args |-> <<n>>]

\* C10: run(steps=N) called on a resume (restart true, step count above zero)
\* keeps max_steps and registers the step targeter with that value; N takes
\* effect on a fresh run only
C10_TargetKeptOnResume ==
    (pc = "started" /\ call.op = "run") =>
        /\ (restart /\ call.steps0 > 0) =>
              /\ max_steps = call.max0
              /\ cbk_params["target_steps"] = TargetStepsParams(call.max0)
        /\ ((~restart \/ call.steps0 = 0) /\ call.given # <<>>) =>
              /\ max_steps = call.given[1]
              /\ cbk_params["target_steps"] = TargetStepsParams(call.given[1])
        /\ call.given = <<>> => max_steps = call.max0

\* run(steps=N) has been called on a resume with N different from max_steps
C10_Witness ==
    /\ pc = "started"
    /\ call.op = "run"
    /\ restart
    /\ call.steps0 > 0
    /\ call.given # <<>>
    /\ call.given[1] # call.max0
    /\ max_steps = call.max0


(***************************************************************************)
(* Properties of the ways run() ends (SpecFaults).                         *)
(***************************************************************************)
IsRaise(e) == e.ev = "raise"

\* a call of write_checkpoint(), whatever came of it
IsRequest(e) == e.ev \in {"checkpoint", "checkpoint_none", "checkpoint_raised"}
IsEndRequest(e) == IsRequest(e) /\ e.phase = "end"
IsEndPhase(e) == e.phase = "end"

Logged(msg) == \E i \in 1..Len(log) : log[i].msg = msg
LoggedLast(msg) == log # <<>> /\ log[Len(log)].msg = msg

\* the exceptions that are neither the termination signal nor a cancellation
Errors == {"AttributeError", "IOError"}

\* the position in the trace of the last observer called
LastNotify == CHOOSE i \in Indices(trace, IsNotify) :
                 \A j \in Indices(trace, IsNotify) : j <= i

\* run() is over and the last observer it called was a targeter whose target
\* held, and which raised the termination signal
EndRaised ==
    /\ pc = "done"
    /\ Indices(trace, IsNotify) # {}
    /\ trace[LastNotify].o \in TargeterIds
    /\ trace[LastNotify].step >= cbk_params[trace[LastNotify].o].args[1]
    /\ LastNotify < Len(trace) => ~IsRaise(trace[LastNotify + 1])

\* the final checkpoint write raised an exception that left write_checkpoint()
EndWriteRaised ==
    /\ trace # <<>>
    /\ IsRaise(trace[Len(trace)])
    /\ trace[Len(trace)].phase = "end"
    /\ trace[Len(trace)].o # "AttributeError"

\* C11: when a targeter raises the termination signal, in the initial check or
\* in the main loop, run() calls write_checkpoint() once, at the final step;
\* unless that write itself fails, the report is then attempted, after the
\* checkpoint, nothing is logged as a failure, the completion marker is logged
\* last and no exception leaves run(); this holds as well when no step was
\* performed since the run began, where the report stops at the time per step
\* and its division by zero is discarded
C11_TerminationHandled ==
    EndRaised =>
        /\ Cardinality(Indices(trace, IsEndRequest)) = 1
        /\ \A i \in Indices(trace, IsEndRequest) :
              /\ i > LastNotify
              /\ trace[i].step = steps
              /\ (has_checkpoint /\ i = Len(trace)) => trace[i].ev = "checkpoint"
        /\ ~EndWriteRaised =>
              /\ escaped = "none"
              /\ log # <<>>
              /\ log[1] = LogEntry("simulation ended", Len(trace))
              /\ LoggedLast("goodbye")
              /\ ~Logged("simulation failed")
              /\ steps = initial_steps => ~Logged("average TSP")

\* a run with max_steps = 0 has ended in the initial check: the checkpoint is
\* written and the report has stopped at the time per step
C11_Witness ==
    /\ EndRaised
    /\ max_steps = 0
    /\ steps = initial_steps
    /\ has_checkpoint
    /\ trace[Len(trace)].ev = "checkpoint"
    /\ Logged("wall time")
    /\ ~Logged("average TSP")
    /\ LoggedLast("goodbye")
    /\ escaped = "none"

\* run() is over after a KeyboardInterrupt raised by an observer of the initial
\* check or of the main loop, or by the backend advance
Cancelled ==
    /\ pc = "done"
    /\ Len(trace) >= 2
    /\ IsRaise(trace[Len(trace)])
    /\ trace[Len(trace)].o = "KeyboardInterrupt"
    /\ trace[Len(trace)].phase \in {"initial", "loop"}
    /\ trace[Len(trace) - 1].ev \in {"notify", "run_until"}

\* C12: when a KeyboardInterrupt is raised during the initial notification, a
\* backend advance or an observer notification of the main loop, run() returns
\* with no exception, no final checkpoint is requested, no line of the final
\* report and no failure is logged, and the completion marker is logged
C12_CancellationEndsQuietly ==
    Cancelled =>
        /\ escaped = "none"
        /\ Indices(trace, IsEndPhase) = {}
        /\ Len(log) = 1
        /\ log[1].msg = "goodbye"

\* an observer has raised KeyboardInterrupt in the main loop, after the first
\* step and before the target
C12_Witness ==
    /\ Cancelled
    /\ trace[Len(trace)].phase = "loop"
    /\ trace[Len(trace) - 1].ev = "notify"
    /\ steps > 0
    /\ steps < max_steps
    /\ LoggedLast("goodbye")

\* C13 as stated: when backend or observer code has raised an exception other
\* than the termination signal and a cancellation at any point of run() (a
\* reset hook, the backend's pre-run hook, a backend advance, a notification,
\* a checkpoint write), run() ends with the failure logged, that exception
\* raised to the caller and the completion marker logged
C13_FailureLoggedAndReraised ==
    \A i \in Indices(trace, IsRaise) :
        trace[i].o \in Errors =>
            /\ pc = "done"
            /\ Logged("simulation failed")
            /\ LoggedLast("goodbye")
            /\ escaped = trace[i].o

\* C14 as stated: wall_time_per_step_particle() returns 0 and raises nothing
\* when no system is attached, in every state of the engine
C14_ZeroWithoutSystem ==
    (pc = "called" /\ call.op = "wall_time_per_step_particle"
        /\ call.given = <<NoSystem>>) =>
        /\ call.result.raised = "none"
        /\ call.result.value = <<0, 1>>

\* C14 amended: with no system attached wall_time_per_step_particle() returns
\* 0 and raises nothing when the step count differs from the initial step of
\* the run; when they are equal it raises ZeroDivisionError whatever is
\* attached; a system with an empty particle list raises ZeroDivisionError too
C14_ZeroWithoutSystemAfterSteps ==
    (pc = "called" /\ call.op = "wall_time_per_step_particle") =>
        /\ (call.given = <<NoSystem>> /\ steps # initial_steps) =>
              /\ call.result.raised = "none"
              /\ call.result.value = <<0, 1>>
        /\ steps = initial_steps =>
              call.result = [value |-> <<>>, raised |-> "ZeroDivisionError"]
        /\ call.given = <<0>> =>
              call.result = [value |-> <<>>, raised |-> "ZeroDivisionError"]
        /\ (call.given[1] > 0 /\ steps # initial_steps) =>
              /\ call.result.raised = "none"
              /\ call.result.value[2] = (steps - initial_steps) * call.given[1]

\* the query has returned 0 with no system attached, after a run that has
\* performed steps
C14_Witness ==
    /\ pc = "called"
    /\ call.op = "wall_time_per_step_particle"
    /\ call.given = <<NoSystem>>
    /\ steps > initial_steps
    /\ call.result = [value |-> <<0, 1>>, raised |-> "none"]

\* C17: with a backend that has no write_checkpoint operation every call of
\* write_checkpoint() writes nothing and raises nothing; a call in the loop is
\* made exactly when the step is the checkpoint trigger and leaves the run in
\* the loop at that step; the call at termination is followed by the report
\* and the completion marker, with no failure logged and no exception raised
C17_MissingCheckpointIsNoOp ==
    ~has_checkpoint =>
        /\ \A i \in Indices(trace, IsRequest) :
              /\ trace[i].ev = "checkpoint_none"
              /\ i < Len(trace) => ~IsRaise(trace[i + 1])
              /\ trace[i].phase = "end" =>
                    /\ i = Len(trace)
                    /\ pc = "done"
                    /\ escaped = "none"
                    /\ Logged("simulation ended")
                    /\ LoggedLast("goodbye")
                    /\ ~Logged("simulation failed")
              /\ (trace[i].phase = "loop" /\ i = Len(trace)) =>
                    /\ pc = "loop"
                    /\ steps = trace[i].step
                    /\ backend_steps = trace[i].step
                    /\ escaped = "none"
                    /\ log = <<>>
        /\ (pc = "loop" /\ iter # NoIter) =>
              (IsRequest(trace[Len(trace)])
                  <=> iter.next_step = iter.next_checkpoint)
        /\ EndRaised => IsEndRequest(trace[Len(trace)])

\* a run with such a backend has ended normally after a checkpoint request in
\* the loop and the one at termination
C17_Witness ==
    /\ ~has_checkpoint
    /\ pc = "done"
    /\ EndRaised
    /\ escaped = "none"
    /\ \E i \in Indices(trace, IsRequest) : trace[i].phase = "loop"
    /\ IsEndRequest(trace[Len(trace)])


(***************************************************************************)
(* Properties of the initial check and of the order of events (Spec).      *)
(***************************************************************************)
\* the initial check of the current run is over
InitialCheckDone == pc \in {"loop", "done"}

\* the target of a registered targeter held when the run began
TargetHeldAtStart ==
    \E o \in Range(callback) \cap TargeterIds :
        initial_steps >= cbk_params[o].args[1]

InitialNotified(o) ==
    Cardinality({i \in Indices(trace, IsInitialNotify) : trace[i].o = o})

\* C15: in the initial check the targeters are notified before any other
\* observer and before the first backend advance; if the target of a targeter
\* holds already, the run ends normally with the backend never advanced, no
\* ordinary observer notified and the step count unchanged
C15_TargetersFirst ==
    /\ \A i, j \in Indices(trace, IsInitialNotify) :
          (trace[i].o \in TargeterIds /\ trace[j].o \in OrdinaryIds) => i < j
    /\ \A i \in Indices(trace, IsInitialNotify), j \in Indices(trace, IsAdvance) :
          i < j
    /\ InitialCheckDone =>
          \E o \in Range(callback) \cap TargeterIds : InitialNotified(o) = 1
    /\ (InitialCheckDone /\ TargetHeldAtStart) =>
          /\ pc = "done"
          /\ outcome = "end"
          /\ escaped = "none"
          /\ Indices(trace, IsAdvance) = {}
          /\ \A i \in Indices(trace, IsNotify) : trace[i].o \in TargeterIds
          /\ steps = initial_steps
    /\ (InitialCheckDone /\ ~TargetHeldAtStart) =>
          \A o \in Range(callback) \cap TargeterIds : InitialNotified(o) = 1

\* a resumed run whose backend reports a step at the target has ended in the
\* initial check, with two ordinary observers registered
C15_Witness ==
    /\ pc = "done"
    /\ restart
    /\ initial_steps > 0
    /\ initial_steps >= max_steps
    /\ OrdinaryIds \subseteq Range(callback)
    /\ Indices(trace, IsAdvance) = {}
    /\ InitialNotified("target_steps") = 1

\* C16 as stated: in the initial check every ordinary observer is notified
\* once at step 0 if the step count is zero, and only the speedometers are
\* notified if it is greater than zero
C16_InitialOrdinaryAlways ==
    InitialCheckDone =>
        \A o \in Range(callback) \cap OrdinaryIds :
            InitialNotified(o) =
                IF initial_steps = 0 \/ IsSpeedometer(o) THEN 1 ELSE 0

\* C16 amended: if no targeter raises the termination signal in the initial
\* check, every ordinary observer is notified once at step 0, in registry
\* order, when the step count is zero, and only the speedometers are notified
\* when it is greater than zero, no other ordinary observer being notified
\* before the first backend advance; if a targeter raises the signal in the
\* initial check no ordinary observer is notified at all
C16_InitialOrdinaryUnlessEnded ==
    /\ InitialCheckDone =>
          \A o \in Range(callback) \cap OrdinaryIds :
              InitialNotified(o) =
                  IF TargetHeldAtStart THEN 0
                  ELSE IF initial_steps = 0 \/ IsSpeedometer(o) THEN 1 ELSE 0
    /\ \A i \in Indices(trace, IsInitialNotify) :
          /\ trace[i].step = initial_steps
          /\ trace[i].o \in OrdinaryIds =>
                (initial_steps = 0 \/ IsSpeedometer(trace[i].o))
    /\ \A i, j \in Indices(trace, IsInitialNotify) :
          (i < j /\ trace[i].o \in OrdinaryIds /\ trace[j].o \in OrdinaryIds) =>
              IndexOf(trace[i].o, callback) < IndexOf(trace[j].o, callback)
    /\ \A i \in Indices(trace, IsNotify) :
          (trace[i].o \in OrdinaryIds /\ ~IsInitialNotify(trace[i])) =>
              \E j \in Indices(trace, IsAdvance) : j < i

\* a resumed run has passed its initial check: the speedometer was notified
\* and the writer was not
C16_Witness ==
    /\ pc = "loop"
    /\ iter = NoIter
    /\ initial_steps > 0
    /\ OrdinaryIds \subseteq Range(callback)
    /\ InitialNotified("speedometer") = 1
    /\ InitialNotified("writer") = 0

\* C18: remove() of an observer that is not registered changes neither the
\* notification order nor the stored registrations; remove() of a registered
\* observer deletes it from both and leaves the other registrations and their
\* order as they were
C18_RemoveFrame ==
    [][(pc = "idle" /\ pc' = "called" /\ call'.op = "remove") =>
          IF ~InSeq(call'.o, callback)
          THEN /\ callback' = callback
               /\ cbk_params' = cbk_params
          ELSE /\ callback' = SelectSeq(callback, LAMBDA x : x # call'.o)
               /\ Len(callback') = Len(callback) - 1
               /\ DOMAIN cbk_params' = DOMAIN cbk_params \ {call'.o}
               /\ \A x \in DOMAIN cbk_params' : cbk_params'[x] = cbk_params[x]]_vars

\* a registered observer has been removed while three others stay registered
C18_Witness ==
    /\ pc = "called"
    /\ call.op = "remove"
    /\ call.old # <<>>
    /\ ~InSeq(call.o, callback)
    /\ call.o \notin DOMAIN cbk_params
    /\ Len(callback) = 3

\* C19: the observers notified in an iteration of the main loop are notified
\* in registry order, ordinary observers before targeters; when the run ends
\* in that iteration every ordinary observer due at that step has been
\* notified at that step before the targeter that ends the run
C19_BatchInRegistryOrder ==
    iter # NoIter =>
        /\ \A a, b \in 1..Len(LastBatch) :
              a < b => /\ IndexOf(LastBatch[a], iter.order)
                             < IndexOf(LastBatch[b], iter.order)
                       /\ LastBatch[a] \in TargeterIds =>
                             LastBatch[b] \in TargeterIds
        /\ \A i \in 1..Len(trace) :
              (i > LastAdvance /\ IsNotify(trace[i])) =>
                  trace[i].step = iter.next_step
        /\ (pc = "done" /\ outcome = "end") =>
              /\ LastBatch # <<>>
              /\ LastBatch[Len(LastBatch)] \in TargeterIds
              /\ \A o \in Range(DueSeq) \cap OrdinaryIds :
                    /\ InSeq(o, LastBatch)
                    /\ IndexOf(o, LastBatch) < Len(LastBatch)

\* the run has ended at its target in an iteration where the writer and the
\* step targeter were both due
C19_Witness ==
    /\ iter # NoIter
    /\ pc = "done"
    /\ outcome = "end"
    /\ steps = max_steps
    /\ {"writer", "target_steps"} \subseteq Range(DueSeq)
    /\ InSeq("writer", LastBatch)
    /\ LastBatch[Len(LastBatch)] = "target_steps"

\* C20: no checkpoint write for a step precedes a notification for the same
\* step; a checkpoint written in the loop follows every observer due at that
\* step, and the checkpoint written by the termination handler follows every
\* observer notified at the final step
C20_CheckpointAfterNotifications ==
    /\ \A i \in Indices(trace, IsCheckpoint), j \in Indices(trace, IsNotify) :
          trace[i].step = trace[j].step => j < i
    /\ (iter # NoIter /\ IsCheckpoint(trace[Len(trace)])) =>
          /\ trace[Len(trace)].step = iter.next_step
          /\ IsLoopCheckpoint(trace[Len(trace)]) => LastBatch = DueSeq
          /\ IsEndCheckpoint(trace[Len(trace)]) => LastBatch # <<>>
          /\ \A k \in 1..Len(LastBatch) :
                IsNotify(trace[Len(trace) - k])

\* a run has ended with a checkpoint written in the loop and the final one,
\* each at a step where the writer was notified
C20_Witness ==
    /\ pc = "done"
    /\ outcome = "end"
    /\ \E i \in Indices(trace, IsLoopCheckpoint) :
          \E j \in Indices(trace, IsNotify) :
              trace[j].step = trace[i].step /\ trace[j].o = "writer"
    /\ IsEndCheckpoint(trace[Len(trace)])
    /\ \E j \in Indices(trace, IsNotify) :
          /\ trace[j].step = steps
          /\ trace[j].o = "writer"
          /\ trace[j].phase = "loop"


(***************************************************************************)
(* Properties of the step counts and of the step targeter (Spec).          *)
(***************************************************************************)
\* C21: every iteration of the main loop finds all triggers above the current
\* step and sets the step count of the engine and of the backend to the same
\* value next_step, which is greater than the step count before the
\* iteration; from the initial check to the end of run() the step count of
\* the engine never decreases
C21_StepsAdvanceTogether ==
    [][/\ pc = "loop" =>
             /\ \A i \in 1..Len(iter'.all_steps) : iter'.all_steps[i] > steps
             /\ iter'.next_checkpoint > steps
             /\ steps' = iter'.next_step
             /\ backend_steps' = iter'.next_step
             /\ steps' > steps
       /\ pc \in {"started", "loop"} => steps' >= steps]_vars

\* a run has ended after two iterations, the second at a greater step than
\* the first, with both step counts at the step of the second
C21_Witness ==
    /\ pc = "done"
    /\ outcome = "end"
    /\ LET adv == SelectSeq(trace, IsAdvance)
       IN  /\ Len(adv) = 2
           /\ adv[1].step < adv[2].step
           /\ steps = adv[2].step
           /\ backend_steps = adv[2].step

\* C23: during and after every run() the registry holds the step targeter
\* exactly once, its stored argument and the interval of its scheduler are
\* the current max_steps, and it stands after every ordinary observer; once
\* registered, it stays registered through every later add, remove and run
C23_SingleStepTarget ==
    /\ [](/\ InRun => InSeq("target_steps", callback)
          /\ InSeq("target_steps", callback) =>
                /\ Occurrences("target_steps", callback) = 1
                /\ "target_steps" \in DOMAIN cbk_params
                /\ cbk_params["target_steps"].args = <<max_steps>>
                /\ cbk_params["target_steps"].scheduler.interval = max_steps
                /\ \A i \in 1..Len(callback) :
                      callback[i] \in OrdinaryIds =>
                          i < IndexOf("target_steps", callback))
    /\ [][InSeq("target_steps", callback) =>
             InSeq("target_steps", callback')]_vars

\* run() has been called again with another step target, with two ordinary
\* observers and the user's targeter registered
C23_Witness ==
    /\ pc = "started"
    /\ call.op = "run"
    /\ call.old # <<>>
    /\ call.old[1].args # <<max_steps>>
    /\ call.given = <<max_steps>>
    /\ Range(callback) = Observers
    /\ Occurrences("target_steps", callback) = 1

\* C24: after any sequence of add and remove calls, and of the registrations
\* done by run(), the observers that have stored parameters are exactly the
\* observers in the notification order, and each stored entry holds a
\* scheduler and arguments
C24_ParamsMatchOrder ==
    /\ DOMAIN cbk_params = Range(callback)
    /\ \A o \in DOMAIN cbk_params :
          DOMAIN cbk_params[o] = {"scheduler", "args"}

\* with no run so far, a registered observer has been removed and two others
\* stay registered, one of them with the largest interval
C24_Witness ==
    /\ pc = "called"
    /\ call.op = "remove"
    /\ call.old # <<>>
    /\ ~InSeq("target_steps", callback)
    /\ Cardinality(Range(callback)) = 2
    /\ Cardinality(DOMAIN cbk_params) = 2
    /\ \E o \in Range(callback) :
          cbk_params[o].scheduler.interval = MaxInterval


(***************************************************************************)
(* Termination of run() (SpecLive).                                        *)
(***************************************************************************)
\* no observer but the step targeter raises the termination signal
NoUserTargeter == ~InSeq("Target_RMSD", callback)

Larger(a, b) == IF a >= b THEN a ELSE b

\* C22: a run(T) with restart false, T >= 0, whose observers other than the
\* step targeter have fixed intervals and raise nothing, never has a step
\* count above T and eventually ends normally at step T, with no exception,
\* for every set of such observers and every checkpoint interval; a run that
\* adopts the step s reported by the backend ends normally as well, at the
\* larger of s and T
C22_FreshRunTerminates ==
    /\ []((InRun /\ NoUserTargeter) =>
            /\ ~restart => steps <= max_steps
            /\ steps <= Larger(initial_steps, max_steps)
            /\ pc = "done" =>
                  /\ outcome = "end"
                  /\ escaped = "none"
                  /\ ~restart => steps = max_steps
                  /\ steps = Larger(initial_steps, max_steps))
    /\ (pc = "started" /\ NoUserTargeter /\ ~restart)
          ~> (pc = "done" /\ outcome = "end" /\ steps = max_steps)
    /\ (pc = "started" /\ NoUserTargeter) ~> (pc = "done" /\ outcome = "end")

\* a run with restart false, two fixed-interval observers and a checkpoint
\* interval has ended at its target after two iterations
C22_Witness ==
    /\ pc = "done"
    /\ outcome = "end"
    /\ ~restart
    /\ NoUserTargeter
    /\ OrdinaryIds \subseteq Range(callback)
    /\ checkpoint_interval > 0
    /\ max_steps = MaxSteps
    /\ steps = max_steps
    /\ Len(SelectSeq(trace, IsAdvance)) >= 2


(***************************************************************************)
(* Observers that change the registry while they are notified (SpecActing).*)
(***************************************************************************)
IsMissing(e) == e.ev = "missing"

\* C25 as stated: every observer that notify() reaches has stored parameters
\* at that moment, also when an observer notified earlier in the same batch
\* has called add() or remove(); no batch raises KeyError at the lookup, and
\* no run fails with it
C25_LookupNeverFails ==
    /\ Indices(trace, IsMissing) = {}
    /\ \A i \in Indices(trace, IsRaise) : trace[i].o # "KeyError"
    /\ escaped # "KeyError"

====
